---- MODULE Spec2Model ----
(***************************************************************************)
(* Model of src/src/main.cpp: the websocket telemetry handler of the MPC   *)
(* controller (latency prediction, world-to-car transform, polynomial fit, *)
(* error extraction, solver call, actuation reply) and the uWS event loop  *)
(* that runs it.  The handlers of HTTP requests, connections and           *)
(* disconnections change no state the telemetry handler reads and are not  *)
(* modelled.                                                               *)
(*                                                                         *)
(* Numbers.  A C++ double is modelled in fixed point with resolution       *)
(* 1/1000: the integer 1000 stands for 1.0 (metres, m/s, radians, and the  *)
(* dimensionless steering, throttle and polynomial coefficients alike).    *)
(* Telemetry speed is in 1/1000 mph.  A product of two such numbers is     *)
(* rescaled by 1000, a quotient is pre-multiplied by 1000.                 *)
(***************************************************************************)
EXTENDS Integers, Sequences, FiniteSets, TLC

VARIABLES pending, nrecv, ndisp, pc, cyc, running, kin, kout

vars == <<pending, nrecv, ndisp, pc, cyc, running, kin, kout>>

\* ------------------------------------------------------------------ bounds
MaxMsgs == 2
MaxN == 2
MaxPts == 5
MaxDeg == 3

\* --------------------------------------------------------------- numerics
Abs(a) == IF a < 0 THEN -a ELSE a

\* a * b on doubles
MulQ(a, b) == (a * b) \div 1000

\* a / b on doubles (b # 0)
DivQ(a, b) == (a * 1000) \div b

\* M_PI
PiMilli == 3142

\* deg2rad: x * pi() / 180, x in whole degrees
deg2rad(x) == (x * PiMilli) \div 180

\* Argument reduction of the libm sine: first to (-pi, pi], then to
\* [-pi/2, pi/2] by reflection.
Reduce(a) ==
    LET w == ((a + PiMilli) % (2 * PiMilli)) - PiMilli
        h == PiMilli \div 2
    IN  IF w > h THEN PiMilli - w
        ELSE IF w < -h THEN -PiMilli - w
        ELSE w

\* std::sin: the Taylor polynomial of degree 7 on the reduced argument
Sin(a) ==
    LET x  == Reduce(a)
        x2 == MulQ(x, x)
        x3 == MulQ(x2, x)
        x5 == MulQ(x3, x2)
        x7 == MulQ(x5, x2)
    IN  x - (x3 \div 6) + (x5 \div 120) - (x7 \div 5040)

\* std::cos
Cos(a) == Sin(a + (PiMilli \div 2))

\* atan on [-1, 1]: (pi/4) x + 0.273 x (1 - |x|)
AtanUnit(x) == MulQ(PiMilli \div 4, x) + MulQ(273, MulQ(x, 1000 - Abs(x)))

\* atan: outside [-1, 1] by atan(x) = sign(x) pi/2 - atan(1/x)
Atan(x) ==
    IF Abs(x) <= 1000 THEN AtanUnit(x)
    ELSE IF x > 0 THEN (PiMilli \div 2) - AtanUnit(DivQ(1000, x))
    ELSE -(PiMilli \div 2) - AtanUnit(DivQ(1000, x))

\* Mutant of pow: the power by repeated multiplication from x, which makes
\* pow(x, 0) equal x and every power one degree too high.
RECURSIVE powFromBase(_, _)
powFromBase(x, i) == IF i = 0 THEN x ELSE MulQ(powFromBase(x, i - 1), x)

\* pow(x, i) for an integer exponent i >= 0; pow(x, 0) is 1 for every x
RECURSIVE pow(_, _)
pow(x, i) == IF i = 0 THEN 1000 ELSE MulQ(pow(x, i - 1), x)

\* ------------------------------------------------------- kinematic constants
\* double latency = 0.1
latency == 100

\* const double Lf = 2.67
Lf == 2670

\* Mutant of ToMetresPerSecond: the unit scaling left out.
RawSpeed(speed) == speed

\* v *= 0.44704: telemetry speed (mph) to m/s
ToMetresPerSecond(speed) == (speed * 44704) \div 100000

\* The state predicted after the latency, in global coordinates.
Predict(px, py, psi, speed, steering, throttle) ==
    LET v == ToMetresPerSecond(speed)
    IN  [px_pred  |-> px + MulQ(MulQ(v, Cos(psi)), latency),
         py_pred  |-> py + MulQ(MulQ(v, Sin(psi)), latency),
         psi_pred |-> psi - MulQ(MulQ(DivQ(v, Lf), latency), steering),
         v_pred   |-> v + MulQ(MulQ(throttle, 9810), latency)]

\* Mutant of ToCar: the waypoint rotated before the translation.
ToCarRotateFirst(px_pred, py_pred, psi_pred, wx, wy) ==
    <<(MulQ(wx, Cos(-psi_pred)) - MulQ(wy, Sin(-psi_pred))) - px_pred,
      (MulQ(wx, Sin(-psi_pred)) + MulQ(wy, Cos(-psi_pred))) - py_pred>>

\* One waypoint (wx, wy) in the coordinate system of the predicted car.
ToCar(px_pred, py_pred, psi_pred, wx, wy) ==
    LET x == wx - px_pred
        y == wy - py_pred
    IN  <<MulQ(x, Cos(-psi_pred)) - MulQ(y, Sin(-psi_pred)),
          MulQ(x, Sin(-psi_pred)) + MulQ(y, Cos(-psi_pred))>>

\* ----------------------------------------------------------------- polyeval
RECURSIVE PolySum(_, _, _)
PolySum(coeffs, x, n) ==
    IF n = 0 THEN 0
    ELSE PolySum(coeffs, x, n - 1) + MulQ(coeffs[n], pow(x, n - 1))

\* result += coeffs[i] * pow(x, i), i = 0 .. coeffs.size() - 1
polyeval(coeffs, x) == PolySum(coeffs, x, Len(coeffs))

\* ------------------------------------------------------------------ polyfit
\* Mutant of PolyfitAsserts: the bound on the order off by one.
PolyfitAssertsLoose(nx, ny, order) == nx = ny /\ order >= 1 /\ order <= nx

\* assert(xvals.size() == yvals.size());
\* assert(order >= 1 && order <= xvals.size() - 1);
PolyfitAsserts(nx, ny, order) == nx = ny /\ order >= 1 /\ order <= nx - 1

\* A(j, 0) = 1.0;  A(j, i + 1) = A(j, i) * xvals(j)
RECURSIVE VanderEntry(_, _)
VanderEntry(x, i) == IF i = 0 THEN 1000 ELSE MulQ(VanderEntry(x, i - 1), x)

Vander(xvals, order) ==
    [j \in 1..Len(xvals) |-> [i \in 1..(order + 1) |-> VanderEntry(xvals[j], i - 1)]]

\* The values a fitted coefficient takes in the model.
CoeffVals == {-1000, 0, 1000}

RECURSIVE RowDot(_, _, _)
RowDot(row, c, n) ==
    IF n = 0 THEN 0 ELSE RowDot(row, c, n - 1) + MulQ(c[n], row[n])

\* The squared residual |A c - y|^2, in units of 0.1 squared.
RECURSIVE Residual(_, _, _, _)
Residual(A, yvals, c, j) ==
    IF j = 0 THEN 0
    ELSE LET r == Abs(RowDot(A[j], c, Len(c)) - yvals[j]) \div 100
         IN  Residual(A, yvals, c, j - 1) + r * r

\* A.householderQr().solve(yvals): the least-squares solutions, to the
\* resolution of the coefficient values.  A rank-deficient A has several.
QrSolve(A, yvals, order) ==
    LET grid == [1..(order + 1) -> CoeffVals]
        res(c) == Residual(A, yvals, c, Len(yvals))
        vals == {res(c) : c \in grid}
        least == CHOOSE v \in vals : \A w \in vals : v <= w
    IN  {c \in grid : res(c) = least}

\* The outcomes of polyfit: a failed assertion (the process aborts), or
\* the coefficients, lowest degree first.
polyfit(xvals, yvals, order) ==
    IF ~PolyfitAsserts(Len(xvals), Len(yvals), order)
    THEN {[ok |-> FALSE, coeffs |-> <<>>]}
    ELSE {[ok |-> TRUE, coeffs |-> c] : c \in QrSolve(Vander(xvals, order), yvals, order)}

\* ------------------------------------------------------------------ frames
\* A websocket frame is its text, a sequence of characters.  The text of a
\* JSON object's members is the single character "@"; body is what those
\* members decode to.
NoBody == [ptsx |-> <<>>, ptsy |-> <<>>, x |-> 0, y |-> 0, psi |-> 0,
           speed |-> 0, steering_angle |-> 0, throttle |-> 0]

Telemetry == <<"t", "e", "l", "e", "m", "e", "t", "r", "y">>

EventText(name, object) ==
    <<"4", "2", "[", "\"">> \o name \o <<"\"", ",">> \o object \o <<"]">>

\* s.find(pat): the first position (from 1) where pat occurs, 0 for npos
Find(s, pat) ==
    LET hits == {i \in 1..(Len(s) - Len(pat) + 1) : SubSeq(s, i, i + Len(pat) - 1) = pat}
    IN  IF hits = {} THEN 0 ELSE CHOOSE i \in hits : \A k \in hits : i <= k

\* s.rfind(pat): the last position (from 1) where pat occurs, 0 for npos
RFind(s, pat) ==
    LET hits == {i \in 1..(Len(s) - Len(pat) + 1) : SubSeq(s, i, i + Len(pat) - 1) = pat}
    IN  IF hits = {} THEN 0 ELSE CHOOSE i \in hits : \A k \in hits : i >= k

\* s.substr(pos, count), pos from 1; count is a size_t, so a negative
\* difference wraps to a count past the end of s
Substr(s, pos, count) ==
    IF count < 0 THEN SubSeq(s, pos, Len(s))
    ELSE SubSeq(s, pos, IF pos + count - 1 > Len(s) THEN Len(s) ELSE pos + count - 1)

hasData(s) ==
    LET found_null == Find(s, <<"n", "u", "l", "l">>)
        b1 == Find(s, <<"[">>)
        b2 == RFind(s, <<"}", "]">>)
    IN  IF found_null # 0 THEN <<>>
        ELSE IF b1 # 0 /\ b2 # 0 THEN Substr(s, b1, b2 - b1 + 2)
        ELSE <<>>

\* json::parse(s), then j[0].get<string>() and j[1]: an array of a string
\* and an object parses; any other text of the model throws.
JsonParse(s) ==
    LET q == IF Len(s) >= 3 /\ s[1] = "[" /\ s[2] = "\""
             THEN Find(SubSeq(s, 3, Len(s)), <<"\"">>) ELSE 0
        rest == SubSeq(s, q + 3, Len(s))
    IN  IF q = 0 THEN [ok |-> FALSE, event |-> <<>>, members |-> FALSE]
        ELSE IF rest = <<",", "{", "@", "}", "]">>
        THEN [ok |-> TRUE, event |-> SubSeq(s, 3, q + 1), members |-> TRUE]
        ELSE IF rest = <<",", "{", "}", "]">>
        THEN [ok |-> TRUE, event |-> SubSeq(s, 3, q + 1), members |-> FALSE]
        ELSE [ok |-> FALSE, event |-> <<>>, members |-> FALSE]

\* Mutant of IsEvent: the test of the size left out.
IsEventAnySize(sdata) == Len(sdata) >= 2 /\ sdata[1] = "4" /\ sdata[2] = "2"

\* sdata.size() > 2 && sdata[0] == '4' && sdata[1] == '2'
IsEvent(sdata) == Len(sdata) > 2 /\ sdata[1] = "4" /\ sdata[2] = "2"

\* ------------------------------------------------------------- the handler
NoPred == [px_pred |-> 0, py_pred |-> 0, psi_pred |-> 0, v_pred |-> 0]

\* The handler's locals for one inbound frame: the cycle.
EmptyCycle ==
    [id |-> 0, frame |-> [text |-> <<>>, body |-> NoBody], class |-> "none",
     outcome |-> "none", pred |-> NoPred, ptsx_cc |-> <<>>, ptsy_cc |-> <<>>,
     coeffs |-> <<>>, cte |-> 0, epsi |-> 0, state |-> <<>>,
     solution |-> <<>>, converged |-> TRUE, steer_value |-> 0,
     throttle_value |-> 0, mpc_x |-> <<>>, mpc_y |-> <<>>,
     replies |-> <<>>, events |-> <<>>]

NoPoints == [steering_angle |-> 0, throttle |-> 0, mpc_x |-> <<>>,
             mpc_y |-> <<>>, next_x |-> <<>>, next_y |-> <<>>]

\* std::string msg = "42[\"manual\",{}]"
ManualMsg == [event |-> "manual"] @@ NoPoints

\* The handler up to the call of mpc.Solve, for a telemetry event with
\* members j1: every outcome polyfit has.
TelemetryHead(c, j1) ==
    LET p == Predict(j1.x, j1.y, j1.psi, j1.speed, j1.steering_angle, j1.throttle)
        cc == [i \in 1..Len(j1.ptsx) |->
                  ToCar(p.px_pred, p.py_pred, p.psi_pred, j1.ptsx[i], j1.ptsy[i])]
        ptsx_cc == [i \in 1..Len(j1.ptsx) |-> cc[i][1]]
        \* An element of ptsy_cc past ptsx.size() is not assigned by the loop;
        \* polyfit's first assertion fails before anything reads it.
        ptsy_cc == [i \in 1..Len(j1.ptsy) |-> IF i <= Len(j1.ptsx) THEN cc[i][2] ELSE 0]
        seen == [c EXCEPT !.class = "telemetry", !.pred = p,
                          !.ptsx_cc = ptsx_cc, !.ptsy_cc = ptsy_cc]
    IN  {IF ~fit.ok
         THEN [seen EXCEPT !.outcome = "assert"]
         ELSE LET cte == polyeval(fit.coeffs, 0)
                  epsi == -Atan(fit.coeffs[2])
              IN  [seen EXCEPT !.outcome = "running", !.coeffs = fit.coeffs,
                               !.cte = cte, !.epsi = epsi,
                               !.state = <<0, 0, 0, p.v_pred, cte, epsi>>]
         : fit \in polyfit(ptsx_cc, ptsy_cc, 3)}

\* The handler from its entry to the call of mpc.Solve or to its end.
OnMessageHead(f, id) ==
    LET c == [EmptyCycle EXCEPT !.id = id, !.frame = f]
        sdata == f.text
        s == hasData(sdata)
        j == JsonParse(s)
    IN  IF ~IsEvent(sdata) THEN {[c EXCEPT !.class = "ignored", !.outcome = "returned"]}
        ELSE IF s = <<>>
        THEN {[c EXCEPT !.class = "manual", !.outcome = "returned",
                        !.replies = <<ManualMsg>>]}
        ELSE IF ~j.ok THEN {[c EXCEPT !.class = "malformed", !.outcome = "exception"]}
        ELSE IF j.event # Telemetry THEN {[c EXCEPT !.class = "other", !.outcome = "returned"]}
        ELSE IF ~j.members THEN {[c EXCEPT !.class = "telemetry", !.outcome = "exception"]}
        ELSE TelemetryHead(c, f.body)

\* Mutant of Normalize: the command clamped to [-1, 1].
NormalizeClamped(steer) ==
    LET s == DivQ(-1 * steer, deg2rad(25))
    IN  IF s > 1000 THEN 1000 ELSE IF s < -1000 THEN -1000 ELSE s

\* steer_value = -1 * solution[0] / deg2rad(25)
Normalize(steer) == DivQ(-1 * steer, deg2rad(25))

\* int N = (solution.size() - 2) / 2
TrajectoryLen(size) == (size - 2) \div 2

\* mpc_x_vals.push_back(solution[i + 2]), i from 0
MpcX(solution, N, i) == solution[(i + 2) + 1]

\* Mutant of MpcY: the offset of the y-block left out.
MpcYNoOffset(solution, N, i) == solution[(i + 2) + 1]

\* mpc_y_vals.push_back(solution[i + 2 + N]), i from 0
MpcY(solution, N, i) == solution[(i + 2 + N) + 1]

\* The handler from the return of mpc.Solve to the built message.
Unpack(c, solution) ==
    LET N == TrajectoryLen(Len(solution))
    IN  [c EXCEPT !.solution = solution,
                  !.steer_value = Normalize(solution[1]),
                  !.throttle_value = solution[2],
                  !.mpc_x = [i \in 1..N |-> MpcX(solution, N, i - 1)],
                  !.mpc_y = [i \in 1..N |-> MpcY(solution, N, i - 1)]]

\* msg = "42[\"steer\"," + msgJson.dump() + "]"
SteerMsg(c) ==
    [event |-> "steer", steering_angle |-> c.steer_value,
     throttle |-> c.throttle_value, mpc_x |-> c.mpc_x, mpc_y |-> c.mpc_y,
     next_x |-> c.ptsx_cc, next_y |-> c.ptsy_cc]

\* ------------------------------------------------------------- the solver
\* mpc.Solve(state, coeffs): {steering, throttle, x-block, y-block}, and
\* whether the optimizer converged.
SolverResults ==
    UNION {{[ok |-> ok, vec |-> <<st, th>> \o xs \o ys] :
               ok \in BOOLEAN, st \in {-524, 262}, th \in {300, -1000},
               xs \in [1..n -> {1000, 2000}], ys \in [1..n -> {-1000, 500}]}
           : n \in 0..MaxN}

\* ------------------------------------------------------------- the inputs
\* Waypoint paths in world coordinates, n points each.
LineX(n) == [i \in 1..n |-> i * 1000]
LineY(n) == [i \in 1..n |-> 1000]
DiagY(n) == [i \in 1..n |-> i * 1000]
WaveY(n) == [i \in 1..n |-> (i % 2) * 1000]
PathY(shape, n) ==
    CASE shape = "line" -> LineY(n) [] shape = "diag" -> DiagY(n) [] OTHER -> WaveY(n)

Sample(ptsx, ptsy, x, y, psi, speed, steering, throttle) ==
    [ptsx |-> ptsx, ptsy |-> ptsy, x |-> x, y |-> y, psi |-> psi,
     speed |-> speed, steering_angle |-> steering, throttle |-> throttle]

TelemetryFrame(body) ==
    [text |-> EventText(Telemetry, <<"{", "@", "}">>), body |-> body]

\* A telemetry frame with one more ptsy than ptsx.
UnevenFrame == TelemetryFrame(Sample(LineX(4), LineY(5), 0, 0, 0, 10000, 0, 0))

\* Frames that carry no telemetry members.
OtherFrames ==
    {[text |-> t, body |-> NoBody] :
        t \in {EventText(Telemetry, <<"n", "u", "l", "l">>),
               EventText(Telemetry, <<"{", "}">>),
               EventText(<<"x">>, <<"{", "}">>),
               <<"4", "2">>,
               <<"4", "2", "x">>,
               <<"4", "1", "[", "}", "]">>,
               <<"4", "2", "}", "]", "[">>,
               <<"4", "2", "}", "]", "x", "[">>}}

\* The frames the simulator sends to the server.
ServerFrames ==
    OtherFrames
    \cup {UnevenFrame}
    \cup {TelemetryFrame(Sample(LineX(n), LineY(n), 0, 0, 0, 10000, 0, 0)) : n \in 0..MaxPts}
    \cup {TelemetryFrame(Sample(LineX(MaxPts), DiagY(MaxPts), 1000, 0, 524, 30000, 200, 500)),
          TelemetryFrame(Sample(LineX(MaxPts), WaveY(MaxPts), 0, 1000, -785, 0, -436, -1000))}

\* --------------------------------------------------------------- the server
NoInput == [fn |-> "none"]

Init ==
    /\ pending = 0
    /\ nrecv = 0
    /\ ndisp = 0
    /\ pc = "idle"
    /\ cyc = EmptyCycle
    /\ running = {}
    /\ kin = NoInput
    /\ kout = NoInput

\* The simulator sends a frame; it waits in the socket until h.run() reads
\* it.  No code reads the frame before the handler does, so its text is
\* drawn when the handler is entered.
Receive ==
    /\ pc # "aborted"
    /\ nrecv < MaxMsgs
    /\ nrecv' = nrecv + 1
    /\ pending' = pending + 1
    /\ UNCHANGED <<ndisp, pc, cyc, running, kin, kout>>

\* Mutant of LoopIdle: the handler entered while it is running.
LoopAlways == TRUE

\* h.run() calls the handler from its one thread: only when the handler
\* has returned.
LoopIdle == pc = "idle"

\* h.run() reads a frame and calls onMessage; the handler runs to the call
\* of mpc.Solve, to its return, or to the abort of the process.
OnMessage ==
    /\ pc # "aborted"
    /\ LoopIdle
    /\ pending > 0
    /\ \E f \in ServerFrames : \E c \in OnMessageHead(f, ndisp + 1) :
          /\ cyc' = c
          /\ pc' = CASE c.outcome = "running" -> "solve"
                     [] c.outcome = "returned" -> "done"
                     [] OTHER -> "aborted"
          /\ running' = IF c.outcome \in {"running", "returned"}
                        THEN running \cup {c.id} ELSE running
    /\ pending' = pending - 1
    /\ ndisp' = ndisp + 1
    /\ UNCHANGED <<nrecv, kin, kout>>

\* auto solution = mpc.Solve(state, coeffs), then the unpacking of it
SolveStep ==
    /\ pc = "solve"
    /\ \E r \in SolverResults :
          cyc' = [Unpack(cyc, r.vec) EXCEPT !.converged = r.ok,
                                            !.events = Append(@, "solve")]
    /\ pc' = "sleep"
    /\ UNCHANGED <<pending, nrecv, ndisp, running, kin, kout>>

\* this_thread::sleep_for(chrono::milliseconds(100))
SleepStep ==
    /\ pc = "sleep"
    /\ cyc' = [cyc EXCEPT !.events = Append(@, "sleep")]
    /\ pc' = "send"
    /\ UNCHANGED <<pending, nrecv, ndisp, running, kin, kout>>

\* Mutant of SendGuard: the send not held back by the wait.
SendGuardEarly == pc \in {"sleep", "send"}

\* The statement after sleep_for is reached.
SendGuard == pc = "send"

\* ws.send(msg.data(), msg.length(), uWS::OpCode::TEXT), and the return
SendStep ==
    /\ SendGuard
    /\ cyc' = [cyc EXCEPT !.replies = Append(@, SteerMsg(cyc)),
                          !.events = Append(@, "send"),
                          !.outcome = "returned"]
    /\ pc' = "done"
    /\ UNCHANGED <<pending, nrecv, ndisp, running, kin, kout>>

\* The handler has returned to h.run(); its locals are gone.
Return ==
    /\ pc = "done"
    /\ pc' = "idle"
    /\ running' = running \ {cyc.id}
    /\ cyc' = EmptyCycle
    /\ UNCHANGED <<pending, nrecv, ndisp, kin, kout>>

Next == Receive \/ OnMessage \/ SolveStep \/ SleepStep \/ SendStep \/ Return

Spec == Init /\ [][Next]_vars

\* ------------------------------------------------- the functions on their own
\* polyfit, the world-to-car transform and the handler's synchronous part,
\* each applied once to an input drawn from a wider set than the server's.
KernelFits ==
    {[fn |-> "polyfit", xvals |-> LineX(n), yvals |-> PathY(shape, n), order |-> d] :
        n \in 0..MaxPts, d \in 0..MaxDeg, shape \in {"line", "diag", "wave"}}

KernelPoints ==
    UNION {{[fn |-> "transform", px_pred |-> x, py_pred |-> y, psi_pred |-> a,
             wx |-> w[1], wy |-> w[2]] : w \in {<<x, y>>, <<1000, 1000>>, <<0, 0>>}}
           : x \in {0, 447, -2000}, y \in {0, 1341}, a \in {0, 424, 1571, -785, 3000}}

KernelFrames ==
    {[fn |-> "frame", frame |-> f] : f \in OtherFrames \cup {UnevenFrame}}
    \cup {[fn |-> "frame",
           frame |-> TelemetryFrame(Sample(LineX(n), PathY(shape, n),
                                            q[1], q[2], q[3], k[1], k[2], k[3]))] :
            n \in 0..MaxPts, shape \in {"line", "diag", "wave"},
            q \in {<<0, 0, 0>>, <<1000, 0, 1571>>, <<0, 1000, -785>>},
            k \in {<<10000, 0, 0>>, <<0, 0, 0>>, <<30000, 200, 500>>, <<20000, -436, -1000>>}}

InitKernel ==
    /\ pending = 0
    /\ nrecv = 0
    /\ ndisp = 0
    /\ pc = "idle"
    /\ cyc = EmptyCycle
    /\ running = {}
    /\ kin \in KernelFits \cup KernelPoints \cup KernelFrames
    /\ kout = NoInput

KPolyfit ==
    /\ kin.fn = "polyfit"
    /\ kout = NoInput
    /\ \E r \in polyfit(kin.xvals, kin.yvals, kin.order) :
          kout' = [fn |-> "polyfit", fit |-> r]
    /\ UNCHANGED <<pending, nrecv, ndisp, pc, cyc, running, kin>>

KTransform ==
    /\ kin.fn = "transform"
    /\ kout = NoInput
    /\ kout' = [fn |-> "transform",
                local |-> ToCar(kin.px_pred, kin.py_pred, kin.psi_pred, kin.wx, kin.wy)]
    /\ UNCHANGED <<pending, nrecv, ndisp, pc, cyc, running, kin>>

KOnMessage ==
    /\ kin.fn = "frame"
    /\ kout = NoInput
    /\ \E c \in OnMessageHead(kin.frame, 1) : kout' = [fn |-> "frame", cycle |-> c]
    /\ UNCHANGED <<pending, nrecv, ndisp, pc, cyc, running, kin>>

NextKernel == KPolyfit \/ KTransform \/ KOnMessage

SpecKernel == InitKernel /\ [][NextKernel]_vars

\* ================================================================== claims
Steers(c) == {i \in 1..Len(c.replies) : c.replies[i].event = "steer"}

Unpacked == pc \in {"sleep", "send", "done"} /\ cyc.class = "telemetry"

Ended == pc \in {"done", "aborted"} /\ cyc.class # "none"

\* The frame is a telemetry event with its members.
CarriesTelemetry(f) == f.text = EventText(Telemetry, <<"{", "@", "}">>)

\* C1: a cycle whose solver did not converge sends no "steer" message.
C1_NoSteerWhenSolverFails == ~cyc.converged => Steers(cyc) = {}

\* C2: polyfit with degree D >= 1 and fewer than D + 1 points fails and
\* returns no coefficients, and a telemetry frame with fewer than 4
\* waypoints ends its cycle in that failure with no reply sent.
C2_UnderdeterminedFitFails ==
    /\ (kout.fn = "polyfit" /\ kin.order >= 1 /\ Len(kin.xvals) < kin.order + 1)
          => (~kout.fit.ok /\ kout.fit.coeffs = <<>>)
    /\ (kout.fn = "frame" /\ CarriesTelemetry(kin.frame)
            /\ Len(kin.frame.body.ptsx) < 4)
          => /\ kout.cycle.outcome = "assert"
             /\ kout.cycle.coeffs = <<>>
             /\ kout.cycle.replies = <<>>

C2_Witness ==
    /\ kout.fn = "frame"
    /\ CarriesTelemetry(kin.frame)
    /\ Len(kin.frame.body.ptsx) = 3
    /\ kout.cycle.outcome = "assert"

\* C3: a solver result of length 2 + 2N is split into steering = result[0],
\* throttle = result[1] and N pairs (result[2 + i], result[2 + N + i]) in
\* index order, and no index read is outside the result.
C3_SplitOfSolverResult ==
    Unpacked =>
        \A N \in 0..(MaxN + 1) :
            Len(cyc.solution) = 2 + 2 * N =>
                /\ cyc.steer_value = DivQ(-1 * cyc.solution[1], deg2rad(25))
                /\ cyc.throttle_value = cyc.solution[2]
                /\ Len(cyc.mpc_x) = N
                /\ Len(cyc.mpc_y) = N
                /\ \A i \in 0..(N - 1) :
                      /\ cyc.mpc_x[i + 1] = cyc.solution[(2 + i) + 1]
                      /\ cyc.mpc_y[i + 1] = cyc.solution[(2 + N + i) + 1]
                /\ 2 + 2 * TrajectoryLen(Len(cyc.solution)) <= Len(cyc.solution)

C3_Witness ==
    /\ pc = "done"
    /\ Len(cyc.solution) = 6
    /\ cyc.mpc_x = <<1000, 2000>>
    /\ cyc.mpc_y = <<500, -1000>>

\* The predictor of the claim C4, for a speed v in m/s.
Projected(b, v) ==
    [px_pred  |-> b.x + MulQ(MulQ(v, Cos(b.psi)), 100),
     py_pred  |-> b.y + MulQ(MulQ(v, Sin(b.psi)), 100),
     psi_pred |-> b.psi - MulQ(MulQ(DivQ(v, 2670), 100), b.steering_angle),
     v_pred   |-> v + MulQ(MulQ(b.throttle, 9810), 100)]

ExampleSample(b) ==
    /\ b.x = 0 /\ b.y = 0 /\ b.psi = 0
    /\ b.speed = 10000 /\ b.steering_angle = 0 /\ b.throttle = 0

\* C4 as stated: the predictor projects with v the speed received in the
\* telemetry sample, and the example sample is predicted at pose
\* (1.0, 0.0, 0.0) with speed 10.
C4_PredictorOnReceivedSpeed ==
    (kout.fn = "frame" /\ CarriesTelemetry(kin.frame)) =>
        LET b == kin.frame.body
        IN  /\ kout.cycle.pred = Projected(b, b.speed)
            /\ ExampleSample(b) =>
                  kout.cycle.pred = [px_pred |-> 1000, py_pred |-> 0,
                                     psi_pred |-> 0, v_pred |-> 10000]

\* C4 amended: the predictor projects with v the received speed times
\* 0.44704, and the example sample is predicted at pose (0.447, 0.0, 0.0)
\* with speed 4.470.
C4_PredictorOnScaledSpeed ==
    (kout.fn = "frame" /\ CarriesTelemetry(kin.frame)) =>
        LET b == kin.frame.body
        IN  /\ kout.cycle.pred = Projected(b, (b.speed * 44704) \div 100000)
            /\ ExampleSample(b) =>
                  kout.cycle.pred = [px_pred |-> 447, py_pred |-> 0,
                                     psi_pred |-> 0, v_pred |-> 4470]

C4_Witness ==
    /\ kout.fn = "frame"
    /\ CarriesTelemetry(kin.frame)
    /\ ExampleSample(kin.frame.body)
    /\ kout.cycle.pred.px_pred = 447

\* C5: in a cycle the solver returns, then the wait completes, then the
\* "steer" command is sent; no command is sent before the wait.
C5_SolveThenWaitThenSend ==
    /\ cyc.events \in {<<>>, <<"solve">>, <<"solve", "sleep">>,
                       <<"solve", "sleep", "send">>}
    /\ Steers(cyc) # {} => cyc.events = <<"solve", "sleep", "send">>

C5_Witness ==
    /\ pc = "done"
    /\ Steers(cyc) # {}
    /\ cyc.events = <<"solve", "sleep", "send">>

\* C6: at most one cycle is between its start and its completion, it is
\* the one the handler is executing, and a later frame waits for it.
C6_CyclesNeverInterleave ==
    /\ Cardinality(running) <= 1
    /\ running \subseteq {cyc.id}
    /\ pc \in {"solve", "sleep", "send", "done"} => running = {cyc.id}
    /\ cyc.id \in {0, ndisp}

C6_Witness ==
    /\ pc = "send"
    /\ pending > 0
    /\ cyc.id = 1
    /\ running = {1}

\* C7: the transform maps a world point equal to the predicted position to
\* local (0, 0) whatever the heading, and the state handed to the solver
\* begins with x = 0, y = 0, heading = 0.
C7_PredictedPoseIsLocalOrigin ==
    /\ (kout.fn = "transform" /\ kin.wx = kin.px_pred /\ kin.wy = kin.py_pred)
          => kout.local = <<0, 0>>
    /\ (kout.fn = "frame" /\ kout.cycle.outcome = "running")
          => /\ Len(kout.cycle.state) = 6
             /\ SubSeq(kout.cycle.state, 1, 3) = <<0, 0, 0>>

C7_Witness ==
    /\ kout.fn = "transform"
    /\ kin.wx = kin.px_pred /\ kin.wy = kin.py_pred
    /\ kin.px_pred = 447 /\ kin.py_pred = 1341 /\ kin.psi_pred = 424
    /\ kout.local = <<0, 0>>

\* C8: the cross-track error polyeval(c, 0) equals c[0], the terms of
\* degree >= 1 contributing 0, and the heading error equals -arctan(c[1]).
C8_ErrorsFromCoefficients ==
    (kout.fn = "frame" /\ kout.cycle.outcome = "running") =>
        LET c == kout.cycle.coeffs
        IN  /\ kout.cycle.cte = c[1]
            /\ polyeval(c, 0) = c[1]
            /\ MulQ(c[1], pow(0, 0)) = c[1]
            /\ \A i \in 1..(Len(c) - 1) : MulQ(c[i + 1], pow(0, i)) = 0
            /\ kout.cycle.epsi = -Atan(c[2])
            /\ kout.cycle.state[5] = c[1]
            /\ kout.cycle.state[6] = -Atan(c[2])

C8_Witness ==
    /\ kout.fn = "frame"
    /\ kout.cycle.outcome = "running"
    /\ kout.cycle.coeffs[1] # 0
    /\ kout.cycle.coeffs[2] # 0
    /\ kout.cycle.cte = kout.cycle.coeffs[1]

\* C9: the steering sent is the negated solver steering divided by the
\* maximum angle (25 degrees in radians), the throttle sent is result[1]
\* unchanged, and nothing is clamped: a solver steering beyond the maximum
\* angle is sent outside [-1, 1].
C9_NormalizedNotClamped ==
    Unpacked =>
        LET maxAngle == (25 * 3142) \div 180
            steer == (-1 * cyc.solution[1] * 1000) \div maxAngle
        IN  /\ cyc.steer_value = steer
            /\ cyc.throttle_value = cyc.solution[2]
            /\ Abs(cyc.solution[1]) > maxAngle => Abs(cyc.steer_value) > 1000
            /\ \A i \in Steers(cyc) :
                  /\ cyc.replies[i].steering_angle = steer
                  /\ cyc.replies[i].throttle = cyc.solution[2]

C9_Witness ==
    /\ pc = "done"
    /\ Steers(cyc) = {1}
    /\ cyc.solution[1] = -524
    /\ cyc.replies[1].steering_angle > 1000
    /\ cyc.replies[1].throttle = -1000

\* The classification of a frame's text that C10 states.
Prefixed(t) == Len(t) > 2 /\ t[1] = "4" /\ t[2] = "2"
NamesTelemetry(t) ==
    /\ Prefixed(t)
    /\ hasData(t) # <<>>
    /\ JsonParse(hasData(t)).ok
    /\ JsonParse(hasData(t)).event = Telemetry
NoData(t) == Prefixed(t) /\ hasData(t) = <<>>

OneReply(c, event) == Len(c.replies) = 1 /\ c.replies[1].event = event

\* C10 as stated: every frame gets at most one reply; a telemetry event
\* gets exactly one "steer" reply, a "42" frame without data exactly one
\* "manual" reply, every other frame none.
C10_ReplyPerFrame ==
    /\ Len(cyc.replies) <= 1
    /\ Ended =>
          LET t == cyc.frame.text
          IN  /\ NamesTelemetry(t) => OneReply(cyc, "steer")
              /\ NoData(t) => OneReply(cyc, "manual")
              /\ (~NamesTelemetry(t) /\ ~NoData(t)) => cyc.replies = <<>>

\* C10 amended: as stated, but a telemetry event gets its one "steer" reply
\* when it carries the telemetry members with at least 4 waypoints; one
\* with fewer waypoints or without the members ends the process with no
\* reply.
C10_ReplyPerFrameWithFit ==
    /\ Len(cyc.replies) <= 1
    /\ Ended =>
          LET t == cyc.frame.text
              fits == CarriesTelemetry(cyc.frame)
                         /\ Len(cyc.frame.body.ptsx) >= 4
                         /\ Len(cyc.frame.body.ptsy) = Len(cyc.frame.body.ptsx)
          IN  /\ (NamesTelemetry(t) /\ fits) => (pc = "done" /\ OneReply(cyc, "steer"))
              /\ (NamesTelemetry(t) /\ ~fits) => (pc = "aborted" /\ cyc.replies = <<>>)
              /\ NoData(t) => (pc = "done" /\ OneReply(cyc, "manual"))
              /\ (~NamesTelemetry(t) /\ ~NoData(t)) => cyc.replies = <<>>

C10_Witness ==
    /\ pc = "done"
    /\ NamesTelemetry(cyc.frame.text)
    /\ Len(cyc.frame.body.ptsx) = 4
    /\ OneReply(cyc, "steer")

====
